---- MODULE Spec2Model ----
(***************************************************************************)
(* Model of src/main.py: the serial plotter.  One GUI callback context     *)
(* (Dear PyGui runs callbacks one at a time) and the daemon threads that   *)
(* start_reading_data spawns, each running read_from_arduino.  The module  *)
(* globals of main.py are the shared state; every thread step reads or     *)
(* writes at most one of them, so that the interleavings of the threads    *)
(* with each other and with stop_reading_data are those of the program.    *)
(***************************************************************************)
EXTENDS Integers, Sequences, FiniteSets, TLC

\* ------------------------------------------------------------------ bounds

\* main.py:29 sets MAX_POINTS = 100; the model runs the same code with a
\* smaller capacity so that the buffer fills and evicts within the bounds.
MAX_POINTS == 2

\* Threads that start_reading_data may spawn in one run of the program.
MaxThreads == 2

\* Device handles that may exist at once (open, or closed and still referenced).
MaxHandles == 2

\* Length of the recorded history of published session states.
MaxLog == 5

\* ----------------------------------------------------------- program values

\* retries = 3 (main.py:94)
RETRIES == 3

\* SERIAL_CONNECTION = None (main.py:31): handles are 1..MaxHandles, None is 0.
None == 0

\* SELECTED_PORT = None (main.py:25)
NoPort == "None"

\* The sentinel combo item (main.py:50, 68, 176)
NO_PORTS == "No ports available"

\* What detect_serial_ports can return (main.py:34-37): the device list of the
\* machine at that moment.
PortLists == { <<>>, <<"COM3">> }

\* Items of the baud rate combo (main.py:180) that the model selects from, as
\* the strings the combo hands to its callback.
BaudItems == { "9600", "19200" }

\* int(app_data) (main.py:154) on the combo's items.
IntOf(s) == CASE s = "9600" -> 9600
              [] s = "19200" -> 19200
              [] s = "38400" -> 38400
              [] s = "57600" -> 57600
              [] s = "115200" -> 115200

\* What one readline() can deliver (main.py:104): a line holding a number, a
\* line of text that is no number (also the empty line of a read timeout), or
\* bytes that are not UTF-8.
NumLines == { "1", "2" }
TEXT_LINE == "abc"
BAD_BYTES == "\\xff"
Wire == NumLines \cup { TEXT_LINE, BAD_BYTES }

\* bytes.decode('utf-8') succeeds (main.py:104)
Decodable(w) == w # BAD_BYTES

\* float(line) succeeds (main.py:107); ValueError otherwise (main.py:124)
IsFloat(w) == w \in NumLines

\* float(line) (main.py:107)
Float(w) == CASE w = "1" -> 1
              [] w = "2" -> 2

Threads == 1..MaxThreads
Handles == 1..MaxHandles

\* The texts update_status is called with, by what they say.
SessionStates == { "Connecting", "Connected", "Retrying", "Disconnected", "Failed" }

VARIABLES
    \* module globals (main.py:25-31)
    SELECTED_PORT, SELECTED_BAUD_RATE, LATEST_VALUE, PLOT_DATA,
    STOP_THREAD, SERIAL_CONNECTION,
    \* Dear PyGui items: status_label, port_combo items, start_button enabled,
    \* the lengths of the (x_data, y_data) that line_series was last given
    status, port_items, start_enabled, line_series,
    \* the callback context: idle, or the statement of stop_reading_data it
    \* is at
    gpc,
    \* the device handles created by serial.Serial: "free", "open", "closed"
    hstate,
    \* read_from_arduino threads: program counter, local retries, the
    \* exception raised in the try block and not handled ("none", "serial" for
    \* SerialException, "decode" for UnicodeDecodeError, "other"), which is
    \* also what ended a thread that died, and the length of the local x_data
    pc, retries, exc, x_len,
    \* history (not program state): the session states published, opens
    \* attempted per thread, whether a thread's open ever succeeded, whether
    \* stop was called while the (still running) thread ran, the values
    \* parsed from numeric lines
    log, attempts, opened, stop_pending, recorded,
    \* history: the (port, baud rate) selected when the thread's session was
    \* started
    started_with,
    \* the surroundings of one run, fixed when the program starts: the lines
    \* the attached device sends (lines), how many sessions the user starts
    \* (starts), whether the user presses Stop or Exit (stops), whether the
    \* user touches the port, baud and refresh controls once a session has been
    \* started (live_config), and whether the history is kept in detail
    \* (MaxLog published states and the counts of opens) or in short (the
    \* last published state)
    scn

vars == << SELECTED_PORT, SELECTED_BAUD_RATE, LATEST_VALUE, PLOT_DATA,
           STOP_THREAD, SERIAL_CONNECTION, status, port_items, start_enabled,
           line_series, gpc, hstate, pc, retries, exc, x_len,
           log, attempts, opened, stop_pending, recorded, started_with,
           scn >>

globals == << SELECTED_PORT, SELECTED_BAUD_RATE, LATEST_VALUE, PLOT_DATA,
              STOP_THREAD, SERIAL_CONNECTION >>
gui == << port_items, start_enabled, line_series >>
ctx == << gpc >>
locals == << pc, retries, exc, x_len >>
history == << attempts, opened, stop_pending, recorded, started_with, scn >>

\* ------------------------------------------------------------------ helpers

\* The last n elements of s.
LastN(s, n) == IF Len(s) <= n THEN s ELSE SubSeq(s, Len(s) - n + 1, Len(s))

\* update_status (main.py:55-61): status_label exists once start_gui has run,
\* so the label takes the text.  The history keeps the session states.
update_status(s) ==
    /\ status' = s
    /\ log' = IF s \in SessionStates
              THEN LastN(Append(log, s), IF scn.detail THEN MaxLog ELSE 1)
              ELSE log

\* A thread that has been started and has not returned or died.
Live(t) == pc[t] \notin { "idle", "done" }

\* The test of main.py:68 without its comparison with the sentinel.
InvalidPort_NoSentinel(p) == p = NoPort \/ p = ""

\* `not SELECTED_PORT or SELECTED_PORT == "No ports available"` (main.py:68)
InvalidPort(p) == p = NoPort \/ p = "" \/ p = NO_PORTS

\* ---------------------------------------------------------------- start_gui

\* The state once start_gui has built the window (main.py:166-207) with the
\* globals at their module values (main.py:25-31).
Started(scenario) ==
    /\ scn = scenario
    /\ SELECTED_PORT = NoPort
    /\ SELECTED_BAUD_RATE = 9600
    /\ LATEST_VALUE = 0
    /\ PLOT_DATA = <<>>
    /\ STOP_THREAD = FALSE
    /\ SERIAL_CONNECTION = None
    /\ status = "Not Connected"
    /\ \E ports \in PortLists :
         port_items = IF ports # <<>> THEN ports ELSE << NO_PORTS >>
    /\ start_enabled = TRUE
    /\ line_series = << 0, 0 >>
    /\ gpc = "idle"
    /\ hstate = [h \in Handles |-> "free"]
    /\ pc = [t \in Threads |-> "idle"]
    /\ retries = [t \in Threads |-> RETRIES]
    /\ exc = [t \in Threads |-> "none"]
    /\ x_len = [t \in Threads |-> 0]
    /\ log = <<>>
    /\ attempts = [t \in Threads |-> 0]
    /\ opened = [t \in Threads |-> FALSE]
    /\ stop_pending = [t \in Threads |-> FALSE]
    /\ recorded = <<>>
    /\ started_with = [t \in Threads |-> << NoPort, 9600 >>]

\* ------------------------------------------------------------ GUI callbacks

\* Whether this run's user uses the port, baud and refresh controls now.
UserConfigures == scn.live_config \/ \A t \in Threads : pc[t] = "idle"

\* on_port_selected (main.py:143-148): the combo hands over one of its items.
on_port_selected ==
    /\ gpc = "idle"
    /\ UserConfigures
    /\ \E i \in 1..Len(port_items) : SELECTED_PORT' = port_items[i]
    /\ update_status("Selected Port")
    /\ UNCHANGED << SELECTED_BAUD_RATE, LATEST_VALUE, PLOT_DATA, STOP_THREAD,
                    SERIAL_CONNECTION, gui, ctx, hstate, locals, history >>

\* on_baud_rate_selected (main.py:151-156)
on_baud_rate_selected ==
    /\ gpc = "idle"
    /\ UserConfigures
    /\ \E b \in BaudItems : SELECTED_BAUD_RATE' = IntOf(b)
    /\ update_status("Baud Rate Selected")
    /\ UNCHANGED << SELECTED_PORT, LATEST_VALUE, PLOT_DATA, STOP_THREAD,
                    SERIAL_CONNECTION, gui, ctx, hstate, locals, history >>

\* refresh_ports without the `enabled=False` of main.py:51: the Start button
\* stays usable when no port is detected.
refresh_ports_ButtonStaysEnabled ==
    /\ gpc = "idle"
    /\ UserConfigures
    /\ \E ports \in PortLists :
         IF ports # <<>>
         THEN /\ port_items' = ports
              /\ update_status("Select a serial port")
         ELSE /\ port_items' = << NO_PORTS >>
              /\ update_status("No serial ports detected")
    /\ start_enabled' = TRUE
    /\ UNCHANGED << globals, line_series, ctx, hstate, locals, history >>

\* refresh_ports (main.py:40-52)
refresh_ports ==
    /\ gpc = "idle"
    /\ UserConfigures
    /\ \E ports \in PortLists :
         IF ports # <<>>
         THEN /\ port_items' = ports
              /\ start_enabled' = TRUE
              /\ update_status("Select a serial port")
         ELSE /\ port_items' = << NO_PORTS >>
              /\ start_enabled' = FALSE
              /\ update_status("No serial ports detected")
    /\ UNCHANGED << globals, line_series, ctx, hstate, locals, history >>

\* start_reading_data (main.py:64-76).  The button's callback runs only while
\* start_button is enabled.  Thread(...).start() takes the next unused thread.
start_reading_data ==
    /\ gpc = "idle"
    /\ start_enabled
    /\ IF InvalidPort(SELECTED_PORT)
       THEN /\ update_status("No valid serial port selected!")
            /\ UNCHANGED << globals, gui, ctx, hstate, locals, history >>
       ELSE /\ \E t \in Threads :
                 /\ t <= scn.starts
                 /\ pc[t] = "idle"
                 /\ \A u \in Threads : u < t => pc[u] # "idle"
                 /\ pc' = [pc EXCEPT ![t] = "outer"]
                 /\ started_with' =
                        [started_with EXCEPT
                           ![t] = << SELECTED_PORT, SELECTED_BAUD_RATE >>]
            /\ update_status("Connecting")
            /\ STOP_THREAD' = FALSE
            /\ UNCHANGED << SELECTED_PORT, SELECTED_BAUD_RATE, LATEST_VALUE,
                            PLOT_DATA, SERIAL_CONNECTION, gui, ctx, hstate,
                            retries, exc, x_len, attempts, opened,
                            stop_pending, recorded, scn >>

\* STOP_THREAD = True (main.py:82), the first statement of stop_reading_data.
\* (exit_application, main.py:159-163, is this callback followed by the end of
\* the process.)
stop_reading_data ==
    /\ gpc = "idle"
    /\ scn.stops
    /\ STOP_THREAD' = TRUE
    /\ gpc' = "stop_check"
    /\ stop_pending' = [t \in Threads |-> stop_pending[t] \/ Live(t)]
    /\ UNCHANGED << SELECTED_PORT, SELECTED_BAUD_RATE, LATEST_VALUE, PLOT_DATA,
                    SERIAL_CONNECTION, status, log, gui, hstate, locals,
                    attempts, opened, recorded, started_with, scn >>

\* The possible handle tables once the last reference to handle h is dropped:
\* a closed handle is gone; an open one is closed by its finalizer
\* (io.IOBase.__del__) or, when the runtime has not collected it, stays open
\* with nothing referring to it.
Released(hs, h) ==
    IF h = None THEN { hs }
    ELSE IF hs[h] = "open" THEN { [hs EXCEPT ![h] = "free"], hs }
    ELSE { [hs EXCEPT ![h] = "free"] }

\* `if SERIAL_CONNECTION:` (main.py:83)
stop_check ==
    /\ gpc = "stop_check"
    /\ gpc' = IF SERIAL_CONNECTION # None THEN "stop_close" ELSE "stop_status"
    /\ UNCHANGED << globals, status, log, gui, hstate, locals, history >>

\* SERIAL_CONNECTION.close() (main.py:84): the global is read again; if the
\* loop's finally has cleared it meanwhile, None has no close and the callback
\* raises AttributeError.
stop_close ==
    /\ gpc = "stop_close"
    /\ IF SERIAL_CONNECTION = None
       THEN /\ gpc' = "stop_raised"
            /\ UNCHANGED hstate
       ELSE /\ hstate' = [hstate EXCEPT ![SERIAL_CONNECTION] = "closed"]
            /\ gpc' = "stop_clear"
    /\ UNCHANGED << globals, status, log, gui, locals, history >>

\* The AttributeError leaves the callback: main.py:85-88 are not run.
stop_raised ==
    /\ gpc = "stop_raised"
    /\ gpc' = "idle"
    /\ UNCHANGED << globals, status, log, gui, hstate, locals, history >>

\* SERIAL_CONNECTION = None (main.py:85)
stop_clear ==
    /\ gpc = "stop_clear"
    /\ SERIAL_CONNECTION' = None
    /\ hstate' \in Released(hstate, SERIAL_CONNECTION)
    /\ gpc' = "stop_status"
    /\ UNCHANGED << SELECTED_PORT, SELECTED_BAUD_RATE, LATEST_VALUE, PLOT_DATA,
                    STOP_THREAD, status, log, gui, locals, history >>

\* update_status("Disconnected", ...) (main.py:87)
stop_status ==
    /\ gpc = "stop_status"
    /\ update_status("Disconnected")
    /\ gpc' = "idle"
    /\ UNCHANGED << globals, gui, hstate, locals, history >>

\* ------------------------------------------------------- read_from_arduino

\* The test of main.py:95 with `>=` for `>`.
LoopCond_OffByOne(r, stop) == r >= 0 /\ ~stop

\* `retries > 0 and not STOP_THREAD` (main.py:95)
LoopCond(r, stop) == r > 0 /\ ~stop

\* `retries == 0 or STOP_THREAD` (main.py:138)
FailedCond(r, stop) == r = 0 \/ stop

\* main.py:115-116 with pop() for pop(0): the newest value is dropped.
Evict_Newest(s) ==
    IF Len(s) > MAX_POINTS THEN SubSeq(s, 1, Len(s) - 1) ELSE s

\* `if len(PLOT_DATA) > MAX_POINTS: PLOT_DATA.pop(0)` (main.py:115-116)
Evict(s) == IF Len(s) > MAX_POINTS THEN Tail(s) ELSE s

\* The thread ends (it returns, or an exception leaves it).
Ends(t) ==
    /\ pc' = [pc EXCEPT ![t] = "done"]
    /\ stop_pending' = [stop_pending EXCEPT ![t] = FALSE]

\* The while test of main.py:95.
t_outer(t) ==
    /\ pc[t] = "outer"
    /\ pc' = [pc EXCEPT ![t] = IF LoopCond(retries[t], STOP_THREAD)
                               THEN "open" ELSE "after"]
    /\ UNCHANGED << globals, status, log, gui, ctx, hstate, retries, exc,
                    x_len, history >>

\* serial.Serial(SELECTED_PORT, SELECTED_BAUD_RATE, timeout=1) (main.py:97):
\* the device opens, and the new handle replaces what SERIAL_CONNECTION held, or
\* it raises SerialException and the global keeps its value.  No device is
\* named None or by the sentinel.
t_open(t) ==
    /\ pc[t] = "open"
    /\ attempts' = [attempts EXCEPT ![t] = IF scn.detail THEN @ + 1 ELSE @]
    /\ \/ /\ ~InvalidPort(SELECTED_PORT)
          /\ \E h \in Handles :
               /\ hstate[h] = "free"
               /\ \A g \in Handles : g < h => hstate[g] # "free"
               /\ hstate' \in Released([hstate EXCEPT ![h] = "open"],
                                       SERIAL_CONNECTION)
               /\ SERIAL_CONNECTION' = h
          /\ opened' = [opened EXCEPT ![t] = scn.detail]
          /\ pc' = [pc EXCEPT ![t] = "connected"]
          /\ UNCHANGED exc
       \/ /\ exc' = [exc EXCEPT ![t] = "serial"]
          /\ pc' = [pc EXCEPT ![t] = "except"]
          /\ UNCHANGED << SERIAL_CONNECTION, hstate, opened >>
    /\ UNCHANGED << SELECTED_PORT, SELECTED_BAUD_RATE, LATEST_VALUE, PLOT_DATA,
                    STOP_THREAD, status, log, gui, ctx, retries, x_len,
                    stop_pending, recorded, started_with, scn >>

\* update_status("Connected ...") and the sleep (main.py:98-100)
t_connected(t) ==
    /\ pc[t] = "connected"
    /\ update_status("Connected")
    /\ pc' = [pc EXCEPT ![t] = "inner"]
    /\ UNCHANGED << globals, gui, ctx, hstate, retries, exc, x_len, history >>

\* `while not STOP_THREAD` (main.py:102); leaving the loop leaves the try
\* block with no exception.
t_inner(t) ==
    /\ pc[t] = "inner"
    /\ pc' = [pc EXCEPT ![t] = IF ~STOP_THREAD THEN "avail" ELSE "finally"]
    /\ UNCHANGED << globals, status, log, gui, ctx, hstate, retries, exc,
                    x_len, history >>

\* Where an exception raised inside the try block goes: a SerialException to
\* the except clause (main.py:127), any other one to the finally clause
\* (main.py:132), to be raised again after it.
Raise(t, e) ==
    /\ exc' = [exc EXCEPT ![t] = e]
    /\ pc' = [pc EXCEPT ![t] = IF e = "serial" THEN "except" ELSE "finally"]

\* `SERIAL_CONNECTION.in_waiting > 0` (main.py:103).  None has no in_waiting
\* (AttributeError).  On a closed handle, or when the device fails, pyserial
\* raises SerialException on one platform and an OSError/TypeError out of the
\* ioctl on another.
t_avail(t) ==
    /\ pc[t] = "avail"
    /\ IF SERIAL_CONNECTION = None
       THEN Raise(t, "other")
       ELSE IF hstate[SERIAL_CONNECTION] # "open"
       THEN \E e \in { "serial", "other" } : Raise(t, e)
       ELSE \/ pc' = [pc EXCEPT ![t] = "inner"] /\ UNCHANGED exc
            \/ pc' = [pc EXCEPT ![t] = "read"] /\ UNCHANGED exc
            \/ \E e \in { "serial", "other" } : Raise(t, e)
    /\ UNCHANGED << globals, status, log, gui, ctx, hstate, retries, x_len,
                    history >>

\* `line = SERIAL_CONNECTION.readline().decode('utf-8').strip()` and
\* `LATEST_VALUE = float(line)` (main.py:104-107, 124-125).  readline on a
\* closed handle or a failed device raises SerialException.  decode is outside
\* the inner try: its UnicodeDecodeError is caught by neither except clause.
\* float(line) of a line that is no float raises ValueError inside the inner
\* try.
t_read(t) ==
    /\ pc[t] = "read"
    /\ IF SERIAL_CONNECTION = None
       THEN Raise(t, "other") /\ UNCHANGED << LATEST_VALUE, recorded >>
       ELSE IF hstate[SERIAL_CONNECTION] # "open"
       THEN Raise(t, "serial") /\ UNCHANGED << LATEST_VALUE, recorded >>
       ELSE \/ Raise(t, "serial") /\ UNCHANGED << LATEST_VALUE, recorded >>
            \/ \E w \in scn.lines :
                 IF ~Decodable(w)
                 THEN Raise(t, "decode") /\ UNCHANGED << LATEST_VALUE, recorded >>
                 ELSE IF ~IsFloat(w)
                 THEN /\ pc' = [pc EXCEPT ![t] = "value_error"]
                      /\ UNCHANGED << exc, LATEST_VALUE, recorded >>
                 ELSE /\ LATEST_VALUE' = Float(w)
                      /\ recorded' = LastN(Append(recorded, Float(w)),
                                           MAX_POINTS + 1)
                      /\ pc' = [pc EXCEPT ![t] = "append"]
                      /\ UNCHANGED exc
    /\ UNCHANGED << SELECTED_PORT, SELECTED_BAUD_RATE, PLOT_DATA, STOP_THREAD,
                    SERIAL_CONNECTION, status, log, gui, ctx, hstate, retries,
                    x_len, attempts, opened, stop_pending, started_with, scn >>

\* main.py:124-125 with the ValueError handled like a SerialException: it
\* goes to the except clause of main.py:127, which retries.
t_value_error_AsSerialError(t) ==
    /\ pc[t] = "value_error"
    /\ exc' = [exc EXCEPT ![t] = "serial"]
    /\ pc' = [pc EXCEPT ![t] = "except"]
    /\ UNCHANGED << globals, status, log, gui, ctx, hstate, retries, x_len,
                    history >>

\* `except ValueError: logger.error(...)` (main.py:124-125): the line is
\* logged and dropped, and the inner loop goes on.
t_value_error(t) ==
    /\ pc[t] = "value_error"
    /\ pc' = [pc EXCEPT ![t] = "inner"]
    /\ UNCHANGED << globals, status, log, gui, ctx, hstate, retries, exc,
                    x_len, history >>

\* `PLOT_DATA.append(float(LATEST_VALUE))` (main.py:114): the global is read
\* again.
t_append(t) ==
    /\ pc[t] = "append"
    /\ PLOT_DATA' = Append(PLOT_DATA, LATEST_VALUE)
    /\ pc' = [pc EXCEPT ![t] = "trim"]
    /\ UNCHANGED << SELECTED_PORT, SELECTED_BAUD_RATE, LATEST_VALUE,
                    STOP_THREAD, SERIAL_CONNECTION, status, log, gui, ctx,
                    hstate, retries, exc, x_len, history >>

\* main.py:115-116
t_trim(t) ==
    /\ pc[t] = "trim"
    /\ PLOT_DATA' = Evict(PLOT_DATA)
    /\ pc' = [pc EXCEPT ![t] = "xdata"]
    /\ UNCHANGED << SELECTED_PORT, SELECTED_BAUD_RATE, LATEST_VALUE,
                    STOP_THREAD, SERIAL_CONNECTION, status, log, gui, ctx,
                    hstate, retries, exc, x_len, history >>

\* `x_data = list(range(len(PLOT_DATA)))` (main.py:119)
t_xdata(t) ==
    /\ pc[t] = "xdata"
    /\ x_len' = [x_len EXCEPT ![t] = Len(PLOT_DATA)]
    /\ pc' = [pc EXCEPT ![t] = "publish"]
    /\ UNCHANGED << globals, status, log, gui, ctx, hstate, retries, exc,
                    history >>

\* `y_data = PLOT_DATA; dpg.set_value("line_series", (x_data, y_data))`
\* (main.py:120-123): y_data is the list itself, read when set_value runs.
t_publish(t) ==
    /\ pc[t] = "publish"
    /\ line_series' = << x_len[t], Len(PLOT_DATA) >>
    /\ x_len' = [x_len EXCEPT ![t] = 0]
    /\ pc' = [pc EXCEPT ![t] = "inner"]
    /\ UNCHANGED << globals, status, log, port_items, start_enabled, ctx,
                    hstate, retries, exc, history >>

\* The except clause (main.py:127-131)
t_except(t) ==
    /\ pc[t] = "except"
    /\ retries' = [retries EXCEPT ![t] = @ - 1]
    /\ update_status("Retrying")
    /\ exc' = [exc EXCEPT ![t] = "none"]
    /\ pc' = [pc EXCEPT ![t] = "finally"]
    /\ UNCHANGED << globals, gui, ctx, hstate, x_len, history >>

\* The end of the finally clause: an exception the except clause did not
\* handle is raised again and ends the thread; otherwise the outer loop goes on.
AfterFinally(t) ==
    IF exc[t] = "none"
    THEN pc' = [pc EXCEPT ![t] = "outer"] /\ UNCHANGED << exc, stop_pending >>
    ELSE Ends(t) /\ UNCHANGED exc

\* `if SERIAL_CONNECTION:` (main.py:133)
t_finally(t) ==
    /\ pc[t] = "finally"
    /\ IF SERIAL_CONNECTION # None
       THEN pc' = [pc EXCEPT ![t] = "fin_close"]
            /\ UNCHANGED << exc, stop_pending >>
       ELSE AfterFinally(t)
    /\ UNCHANGED << globals, status, log, gui, ctx, hstate, retries, x_len,
                    attempts, opened, recorded, started_with, scn >>

\* SERIAL_CONNECTION.close() (main.py:134): the global is read again; if
\* stop_reading_data has cleared it meanwhile, the AttributeError ends the
\* thread.
t_fin_close(t) ==
    /\ pc[t] = "fin_close"
    /\ IF SERIAL_CONNECTION = None
       THEN /\ Ends(t)
            /\ exc' = [exc EXCEPT ![t] = "other"]
            /\ UNCHANGED hstate
       ELSE /\ hstate' = [hstate EXCEPT ![SERIAL_CONNECTION] = "closed"]
            /\ pc' = [pc EXCEPT ![t] = "fin_clear"]
            /\ UNCHANGED << exc, stop_pending >>
    /\ UNCHANGED << globals, status, log, gui, ctx, retries, x_len, attempts,
                    opened, recorded, started_with, scn >>

\* SERIAL_CONNECTION = None (main.py:135)
t_fin_clear(t) ==
    /\ pc[t] = "fin_clear"
    /\ SERIAL_CONNECTION' = None
    /\ hstate' \in Released(hstate, SERIAL_CONNECTION)
    /\ AfterFinally(t)
    /\ UNCHANGED << SELECTED_PORT, SELECTED_BAUD_RATE, LATEST_VALUE, PLOT_DATA,
                    STOP_THREAD, status, log, gui, ctx, retries, x_len,
                    attempts, opened, recorded, started_with, scn >>

\* main.py:138-140, and the thread returns.
t_after(t) ==
    /\ pc[t] = "after"
    /\ IF FailedCond(retries[t], STOP_THREAD)
       THEN update_status("Failed")
       ELSE UNCHANGED << status, log >>
    /\ Ends(t)
    /\ UNCHANGED << globals, gui, ctx, hstate, retries, exc, x_len, attempts,
                    opened, recorded, started_with, scn >>

\* The steps of the loop other than recording a value.
LoopSteps(t) ==
    \/ t_outer(t) \/ t_open(t) \/ t_connected(t) \/ t_inner(t) \/ t_avail(t)
    \/ t_read(t) \/ t_value_error(t) \/ t_except(t) \/ t_finally(t)
    \/ t_fin_close(t) \/ t_fin_clear(t) \/ t_after(t)

\* Recording a value (main.py:113-123).
RecordSteps(t) == t_append(t) \/ t_trim(t) \/ t_xdata(t) \/ t_publish(t)

read_from_arduino(t) == LoopSteps(t) \/ RecordSteps(t)

\* The callbacks that configure the connection.
Configure == on_port_selected \/ on_baud_rate_selected \/ refresh_ports

\* Stop and Exit, statement by statement.
Stopping ==
    \/ stop_reading_data \/ stop_check \/ stop_close \/ stop_raised
    \/ stop_clear \/ stop_status

Next ==
    \/ Configure
    \/ start_reading_data
    \/ Stopping
    \/ \E t \in Threads : read_from_arduino(t)

\* ----------------------------------------------------------- specifications

\* One session: the user starts once and may stop; the device sends any line
\* of Wire; the history keeps MaxLog published session states.  Port and baud
\* rate are set up before the start.  (Selecting while a loop runs adds no
\* behaviour of the loops: it overwrites the status text and can only make
\* later opens and starts fail, which the device may do by itself.)
InitSession ==
    Started([lines |-> Wire, starts |-> 1, stops |-> TRUE,
             live_config |-> FALSE, detail |-> TRUE])

SpecSession == InitSession /\ [][Next]_vars

\* Sessions that may overlap: the user starts up to MaxThreads times and may
\* stop in between; the device sends text that is no number, or undecodable
\* bytes, so that no value is ever recorded.
Init ==
    Started([lines |-> { TEXT_LINE, BAD_BYTES }, starts |-> MaxThreads,
             stops |-> TRUE, live_config |-> FALSE, detail |-> FALSE])

\* With no numeric line, the steps that record a value cannot occur.
NextSilent ==
    \/ Configure
    \/ start_reading_data
    \/ Stopping
    \/ \E t \in Threads : LoopSteps(t)

Spec == Init /\ [][NextSilent]_vars

\* Loops that record together: the user starts up to MaxThreads times and
\* never stops; the device sends a number, or text that is no number.
InitRecord ==
    Started([lines |-> { "1", TEXT_LINE }, starts |-> MaxThreads, stops |-> FALSE,
             live_config |-> FALSE, detail |-> FALSE])

NextRecord ==
    \/ Configure
    \/ start_reading_data
    \/ \E t \in Threads : read_from_arduino(t)

SpecRecord == InitRecord /\ [][NextRecord]_vars

\* One session during which the user goes on using the port, baud rate and
\* refresh controls; the device sends no number.
InitConfig ==
    Started([lines |-> { TEXT_LINE, BAD_BYTES }, starts |-> 1, stops |-> TRUE,
             live_config |-> TRUE, detail |-> FALSE])

SpecConfig == InitConfig /\ [][NextSilent]_vars

\* ------------------------------------------------------------------ claims

\* The elements of a sequence.
Range(s) == { s[i] : i \in 1..Len(s) }

\* The published session states from the latest "Connecting" on: the states of
\* the latest session.
SinceStart(s) ==
    IF "Connecting" \notin Range(s) THEN <<>>
    ELSE LET i == CHOOSE k \in 1..Len(s) :
                    /\ s[k] = "Connecting"
                    /\ \A j \in (k + 1)..Len(s) : s[j] # "Connecting"
         IN SubSeq(s, i, Len(s))

\* s is an initial part of q.
IsPrefix(s, q) == Len(s) <= Len(q) /\ s = SubSeq(q, 1, Len(s))

\* C1: a call of start_reading_data made while the selected port is unset,
\* empty or the sentinel "No ports available" starts no loop, opens nothing
\* and publishes the error status.
C1_StartFailsFast ==
    [][ (start_reading_data /\ SELECTED_PORT \in { NoPort, "", NO_PORTS })
        => /\ pc' = pc
           /\ attempts' = attempts
           /\ SERIAL_CONNECTION' = SERIAL_CONNECTION
           /\ hstate' = hstate
           /\ STOP_THREAD' = STOP_THREAD
           /\ status' = "No valid serial port selected!" ]_vars

\* C1's case: start was pressed with the sentinel selected.
C1_Witness ==
    /\ SELECTED_PORT = NO_PORTS
    /\ status = "No valid serial port selected!"
    /\ \A t \in Threads : pc[t] = "idle"

\* The session states of a session whose every open fails.
ExhaustedSequence ==
    << "Connecting", "Retrying", "Retrying", "Retrying", "Failed" >>

\* C2: in a session with a valid port whose opens all fail and in which no stop
\* is requested, the published states are Connecting, Retrying three times,
\* Failed; the loop then has made exactly 3 open attempts, and it has ended
\* once Failed is published, so none follows.
C2_RetryExhaustion ==
    \A t \in Threads :
        (pc[t] # "idle" /\ ~opened[t] /\ ~STOP_THREAD)
        => /\ IsPrefix(SinceStart(log), ExhaustedSequence)
           /\ attempts[t] <= 3
           /\ pc[t] = "done"
                => SinceStart(log) = ExhaustedSequence /\ attempts[t] = 3
           /\ "Failed" \in Range(SinceStart(log)) => pc[t] = "done"

\* C2's case: the loop has ended after three failed opens and no stop.
C2_Witness ==
    /\ pc[1] = "done"
    /\ ~opened[1]
    /\ ~STOP_THREAD
    /\ attempts[1] = 3
    /\ log = ExhaustedSequence
    /\ status = "Failed"

\* C3: once more than MAX_POINTS numeric lines have been recorded by a single
\* loop (and it is not in the middle of recording one), PLOT_DATA holds exactly
\* the last MAX_POINTS recorded values, in the order they were recorded.
C3_RollingFifo ==
    ( /\ \A t \in Threads : pc[t] \notin { "append", "trim" }
      /\ Len(recorded) > MAX_POINTS )
    => /\ Len(PLOT_DATA) = MAX_POINTS
       /\ PLOT_DATA = LastN(recorded, MAX_POINTS)

\* C3's case: more than MAX_POINTS values recorded, of which the one evicted
\* was a 1 and the two newest are a 2 and then a 1, with the record complete.
C3_Witness ==
    /\ \A t \in Threads : pc[t] \notin { "append", "trim" }
    /\ Len(recorded) > MAX_POINTS
    /\ recorded[1] = 1
    /\ recorded[Len(recorded)] = 1
    /\ recorded[Len(recorded) - 1] = 2
    /\ PLOT_DATA = LastN(recorded, MAX_POINTS)

\* C4: in every reachable state at most one read_from_arduino loop is running.
C4_OneLoop == Cardinality({ t \in Threads : Live(t) }) <= 1

\* C5: every call of stop_reading_data returns having published Disconnected,
\* and none raises: the callback context goes back to idle only from the
\* statement that publishes Disconnected.
C5_StopIdempotent ==
    [][ (gpc # "idle" /\ gpc' = "idle")
        => (gpc = "stop_status" /\ status' = "Disconnected") ]_vars

\* C6: once a loop has returned with retries left (it left because of the
\* stop signal) and stop_reading_data has returned, the last state published
\* is Disconnected, and Failed was not published in that session.
C6_UserStopDisconnected ==
    \A t \in Threads :
        (pc[t] = "done" /\ exc[t] = "none" /\ retries[t] > 0 /\ gpc = "idle")
        => /\ log # <<>> /\ log[Len(log)] = "Disconnected"
           /\ "Failed" \notin Range(SinceStart(log))

\* C7: a loop that was running when stop_reading_data was called leaves at its
\* next test of the stop flag: from the inner while to the finally clause,
\* from the outer while to the end of the function.
C7_StopTerminates ==
    [][ \A t \in Threads :
          stop_pending[t]
          => /\ pc[t] = "inner" => pc'[t] \in { "inner", "finally" }
             /\ pc[t] = "outer" => pc'[t] \in { "outer", "after" } ]_vars

\* C8: a line that cannot be decoded does not end the session: no loop has
\* ended by the decode error, and while the error is what a loop last met the
\* connection it read from stays open.
C8_DecodeFailureContinues ==
    \A t \in Threads :
        exc[t] = "decode"
        => /\ Live(t)
           /\ SERIAL_CONNECTION # None
           /\ hstate[SERIAL_CONNECTION] = "open"

\* C9 (its weaker half): while the last published status is Connected, some
\* loop is alive.
C9_ConnectedMeansAlive ==
    status = "Connected" => \E t \in Threads : Live(t)

\* C10: every series handed to line_series has at most MAX_POINTS points, in
\* x and in y.
C10_SeriesWithinCap ==
    line_series[1] <= MAX_POINTS /\ line_series[2] <= MAX_POINTS

\* C11: every open of a loop uses the port and the baud rate that were
\* selected when its session was started: at each step that executes
\* serial.Serial(SELECTED_PORT, SELECTED_BAUD_RATE, ...) the two globals hold
\* what they held at the start, also when on_port_selected or
\* on_baud_rate_selected ran in between.
C11_ConfigFixedAtStart ==
    [][\A t \in Threads :
          (pc[t] = "open" /\ pc'[t] # "open")
             => << SELECTED_PORT, SELECTED_BAUD_RATE >> = started_with[t]]_vars

\* C12 as stated: once the enumeration has returned no port (the combo shows
\* the sentinel), start_reading_data rejects with the configuration error
\* whatever port was selected before: its test of main.py:68 is true, that is,
\* SELECTED_PORT is None, empty or the sentinel.
C12_StartRejectsAfterEmptyList ==
    port_items = << NO_PORTS >> => InvalidPort(SELECTED_PORT)

\* C12, amended: while the combo shows the sentinel no loop is started.  At
\* program start the button is usable and a start publishes the configuration
\* error; after a refresh_ports that found no port the button is disabled and
\* start_reading_data does not run (SELECTED_PORT keeps the port selected
\* before).
C12_NoLoopAfterEmptyList ==
    [][ port_items = << NO_PORTS >>
        => /\ \A t \in Threads : pc[t] = "idle" => pc'[t] = "idle"
           /\ start_reading_data
                 => status' = "No valid serial port selected!" ]_vars

\* C12's case: a port was selected, then refresh_ports found no port.
C12_Witness ==
    /\ port_items = << NO_PORTS >>
    /\ ~start_enabled
    /\ SELECTED_PORT = "COM3"
    /\ status = "No serial ports detected"

\* The session state published last; "Idle" before the first one.
LastPublished == IF log = <<>> THEN "Idle" ELSE log[Len(log)]

\* C13: SERIAL_CONNECTION is None whenever the session state published last is
\* Idle, Disconnected or Failed.
C13_NoHandleWhenNotConnected ==
    LastPublished \in { "Idle", "Disconnected", "Failed" }
       => SERIAL_CONNECTION = None

\* C14: the device handle is owned by the loop.  No step of the callback
\* context (stop_reading_data) closes a handle or clears SERIAL_CONNECTION,
\* and a loop that has found data waiting and is about to call readline still
\* has its open handle in SERIAL_CONNECTION.
C14_HandleOwnedByLoop ==
    [][ /\ gpc' # gpc
           => hstate' = hstate /\ SERIAL_CONNECTION' = SERIAL_CONNECTION
        /\ \A t \in Threads :
             pc[t] = "read"
                => /\ SERIAL_CONNECTION # None
                   /\ hstate[SERIAL_CONNECTION] = "open" ]_vars

\* C15: in every state, the states between the statements of one record
\* included, PLOT_DATA holds at most MAX_POINTS values.
C15_BufferWithinCap == Len(PLOT_DATA) <= MAX_POINTS

\* C16: in the sequence of published session states Connecting never directly
\* follows Connected: no step publishes Connecting while the state published
\* last is Connected.
C16_NoConnectingAfterConnected ==
    [][ (LastPublished = "Connected" /\ log' # log)
        => log'[Len(log')] # "Connecting" ]_vars

\* C17: a line that decodes and is no float does no harm.  The step at which
\* float(line) raises ValueError and the step of its handler leave PLOT_DATA,
\* LATEST_VALUE, the retry counters, the handle and the published state as
\* they are, raise nothing further, and the handler returns to the inner
\* loop for the next line.
C17_ParseFailureHarmless ==
    [][ \A t \in Threads :
          ( \/ pc[t] = "read" /\ pc'[t] = "value_error"
            \/ pc[t] = "value_error" /\ pc'[t] # "value_error" )
          => /\ pc[t] = "value_error" => pc'[t] = "inner"
             /\ exc'[t] = "none"
             /\ PLOT_DATA' = PLOT_DATA
             /\ LATEST_VALUE' = LATEST_VALUE
             /\ retries' = retries
             /\ SERIAL_CONNECTION' = SERIAL_CONNECTION
             /\ hstate' = hstate
             /\ status' = status /\ log' = log ]_vars

\* C17's case: with a value already recorded and nothing retried, float(line)
\* has raised ValueError on a line of text and the handle is still open.
C17_Witness ==
    \E t \in Threads :
       /\ pc[t] = "value_error"
       /\ retries[t] = RETRIES
       /\ PLOT_DATA # <<>>
       /\ LATEST_VALUE = PLOT_DATA[Len(PLOT_DATA)]
       /\ SERIAL_CONNECTION # None
       /\ hstate[SERIAL_CONNECTION] = "open"

\* C18: in every state, whenever PLOT_DATA is not empty LATEST_VALUE is its
\* last element.
C18_LatestIsLastOfBuffer ==
    PLOT_DATA # <<>> => LATEST_VALUE = PLOT_DATA[Len(PLOT_DATA)]

C20_BudgetNeverReplenished ==
    [][ \A t \in Threads :
          /\ retries'[t] = retries[t]
                \/ (pc[t] = "except" /\ retries'[t] = retries[t] - 1)
          /\ (pc[t] # "done" /\ pc'[t] = "done" /\ ~STOP_THREAD')
                => retries'[t] = 0 /\ status' = "Failed" ]_vars

====
